---- MODULE Spec2Model ----
(***************************************************************************)
(* fun_run: output_and_write_streams (src/src/command.rs) and the          *)
(* CommandWithName::stream_output wrapper (src/src/lib.rs).                *)
(*                                                                         *)
(* The calling thread, the two scoped drain threads and the child process  *)
(* are the processes of the model.  The two kernel pipes are bounded       *)
(* queues of bytes.  The external sinks are caller supplied writers whose  *)
(* every write may succeed, fail with an io::Error or panic.               *)
(***************************************************************************)
EXTENDS Integers, Sequences, FiniteSets, TLC

\* ------------------------------------------------------------------ bounds
\* capacity of a kernel pipe buffer, in bytes
PipeCap == 2
\* the number of calls made on one TeeWrite
MaxTeeCalls == 2
\* the number of arguments given to one Command
MaxArgs == 3
\* the longest child program: one write more than a pipe can hold
MaxWrites == PipeCap + 1

\* ------------------------------------------------------------- data types
Streams == {"stdout", "stderr"}

\* the child's exit codes, and the raw wait status of each
ExitCodes == {0, 1}
ExitRaw(code) == code * 256
SigPipeRaw == 13
SigKillRaw == 9

\* an io::Error: its ErrorKind and its raw_os_error() (<<>> is None)
IoError(kind, raw) == [kind |-> kind, raw |-> raw]
ENOENT == IoError("NotFound", <<2>>)
EACCES == IoError("PermissionDenied", <<13>>)
EIO    == IoError("Other", <<>>)
\* io::Error::from_raw_os_error(0), as last_os_error() gives when errno is 0
EZERO  == IoError("Uncategorized", <<0>>)
\* errors Command::spawn can return
SpawnErrors == {ENOENT, EACCES}
\* errors a caller supplied writer can return from write
SinkErrors == {ENOENT, EIO, EZERO}
\* errors a read of a pipe can return
ReadErrors == {EIO}
\* errors Child::wait can return
WaitErrors == {EIO}

Ok(v)  == [tag |-> "Ok", val |-> v]
Err(e) == [tag |-> "Err", err |-> e]
NoResult == [tag |-> "none"]

\* a child program: the streams it writes one byte to, in order, before it
\* exits.  The byte written by step i is i, so every byte is distinct.
RECURSIVE SeqsUpTo(_, _)
SeqsUpTo(S, n) ==
    IF n = 0 THEN {<<>>}
    ELSE LET shorter == SeqsUpTo(S, n - 1)
         IN  shorter \cup {Append(p, s) : p \in {q \in shorter : Len(q) = n - 1}, s \in S}
Programs == SeqsUpTo(Streams, MaxWrites)

\* the bytes a program has written to stream s in its first n steps
RECURSIVE Written(_, _, _)
Written(p, n, s) ==
    IF n = 0 THEN <<>>
    ELSE IF p[n] = s THEN Append(Written(p, n - 1, s), n)
         ELSE Written(p, n - 1, s)

\* ------------------------------------------------------------------ state
VARIABLES
    pc,        \* position of the calling thread in output_and_write_streams
    prog,      \* the program the command runs
    child,     \* the child process: [st, pos, status]
    field,     \* child.stdout / child.stderr: "some" or "none" (Option)
    pipe,      \* bytes in each kernel pipe
    thread,    \* stdout_thread / stderr_thread: [st, src, res]
    buffer,    \* stdout_buffer / stderr_buffer
    sink,      \* what stdout_write / stderr_write have received
    joined,    \* the io::Result of each join, once evaluated
    waitRes,   \* the io::Result of child.wait(), once called
    result,    \* the value output_and_write_streams returned
    fault,     \* history: where the first I/O fault of the call was raised
    prev,      \* history: how the caller's previous call ended
    rejects,   \* the external sinks that fail every write they are given
    tee,       \* a TeeWrite over two writers of its own: [a, b, written, allOk, calls, last]
    named      \* a Command and the NamedCommand made from it

vars == <<named, tee, rejects, prev, pc, prog, child, field, pipe, thread, buffer, sink, joined, waitRes, result, fault>>

NoThread == [st |-> "none", src |-> "none", res |-> NoResult]
NoFault == [site |-> "none", stream |-> "none", side |-> "none", kind |-> "none", err |-> [kind |-> "none", raw |-> <<>>]]
Fault(site, stream, side, kind, e) == [site |-> site, stream |-> stream, side |-> side, kind |-> kind, err |-> e]
NoPrev == [fault |-> NoFault, result |-> NoResult]
\* a tee(a, b) of two empty writers that has not been written to
NoLast == [op |-> "none", chunk |-> <<>>, a0 |-> <<>>, b0 |-> <<>>, fa0 |-> 0, fb0 |-> 0,
           oa |-> "none", ob |-> "none", res |-> "none", side |-> "none", n |-> 0,
           err |-> [kind |-> "none", raw |-> <<>>]]
NoTee == [a |-> <<>>, b |-> <<>>, written |-> <<>>, allOk |-> TRUE, calls |-> 0,
          flushedA |-> 0, flushedB |-> 0, last |-> NoLast]

\* a Command::new("bundle") without arguments and no NamedCommand yet; name0,
\* args0 and added are history: the name and the arguments at the time the
\* NamedCommand was made, and the arguments given through mut_cmd() since
NoNamed == [program |-> "bundle", args |-> <<>>, made |-> FALSE, name |-> <<>>,
            name0 |-> <<>>, args0 |-> <<>>, added |-> <<>>]

\* ------------------------------------------------------------- TeeWrite
\* (variant: one write call, which may take only the first byte, instead of write_all)
WriteOnce(w, chunk, o) ==
    IF o.kind = "ok"
    THEN [w |-> w \o SubSeq(chunk, 1, IF Len(chunk) > 1 THEN 1 ELSE Len(chunk)), res |-> "ok", err |-> EIO]
    ELSE [w |-> w \o SubSeq(chunk, 1, o.n), res |-> o.kind, err |-> o.err]

\* (variant: the writer is started again from the chunk instead of appended to)
WriteAllOverwrites(w, chunk, o) ==
    IF o.kind = "ok"
    THEN [w |-> chunk, res |-> "ok", err |-> EIO]
    ELSE [w |-> SubSeq(chunk, 1, o.n), res |-> o.kind, err |-> o.err]

\* Write::write_all on one writer.  o is what the writer does with the
\* chunk: take all of it, or take the first o.n bytes and fail or panic.
WriteAll(w, chunk, o) ==
    IF o.kind = "ok"
    THEN [w |-> w \o chunk, res |-> "ok", err |-> EIO]
    ELSE [w |-> w \o SubSeq(chunk, 1, o.n), res |-> o.kind, err |-> o.err]

\* (variant: best effort, inner_b is written whatever inner_a did)
TeeWriteBestEffort(a, b, chunk, oa, ob) ==
    LET ra == WriteAll(a, chunk, oa)
        rb == WriteAll(b, chunk, ob)
    IN  IF ra.res # "ok"
        THEN [a |-> ra.w, b |-> rb.w, res |-> ra.res, err |-> ra.err, side |-> "a", n |-> 0]
        ELSE [a |-> ra.w, b |-> rb.w, res |-> rb.res, err |-> rb.err, side |-> "b",
              n |-> IF rb.res = "ok" THEN Len(chunk) ELSE 0]

\* (variant: inner_b is written first, inner_a only when that succeeded)
TeeWriteSecondFirst(a, b, chunk, oa, ob) ==
    LET rb == WriteAll(b, chunk, ob)
    IN  IF rb.res # "ok"
        THEN [a |-> a, b |-> rb.w, res |-> rb.res, err |-> rb.err, side |-> "b", n |-> 0]
        ELSE LET ra == WriteAll(a, chunk, oa)
             IN  [a |-> ra.w, b |-> rb.w, res |-> ra.res, err |-> ra.err, side |-> "a",
                  n |-> IF ra.res = "ok" THEN Len(chunk) ELSE 0]

\* (variant: inner_a is given the chunk by one write instead of write_all)
TeeWriteShortA(a, b, chunk, oa, ob) ==
    LET ra == WriteOnce(a, chunk, oa)
    IN  IF ra.res # "ok"
        THEN [a |-> ra.w, b |-> b, res |-> ra.res, err |-> ra.err, side |-> "a", n |-> 0]
        ELSE LET rb == WriteAll(b, chunk, ob)
             IN  [a |-> ra.w, b |-> rb.w, res |-> rb.res, err |-> rb.err, side |-> "b",
                  n |-> IF rb.res = "ok" THEN Len(chunk) ELSE 0]

\* TeeWrite::write: inner_a.write_all(buf)?; inner_b.write_all(buf)?; Ok(len)
TeeWrite(a, b, chunk, oa, ob) ==
    LET ra == WriteAll(a, chunk, oa)
    IN  IF ra.res # "ok"
        THEN [a |-> ra.w, b |-> b, res |-> ra.res, err |-> ra.err, side |-> "a", n |-> 0]
        ELSE LET rb == WriteAll(b, chunk, ob)
             IN  [a |-> ra.w, b |-> rb.w, res |-> rb.res, err |-> rb.err, side |-> "b",
                  n |-> IF rb.res = "ok" THEN Len(chunk) ELSE 0]

\* what a writer can do with a flush
FlushOutcomes == {[kind |-> "ok", err |-> EIO]} \cup {[kind |-> "err", err |-> e] : e \in SinkErrors}

\* (variant: both writers are flushed, the first error is returned)
TeeFlushBoth(oa, ob) ==
    IF oa.kind # "ok"
    THEN [fa |-> 1, fb |-> 1, res |-> oa.kind, err |-> oa.err, side |-> "a"]
    ELSE [fa |-> 1, fb |-> 1, res |-> ob.kind, err |-> ob.err, side |-> "b"]

\* TeeWrite::flush: inner_a.flush()?; inner_b.flush().  fa and fb count the
\* flush calls made on each writer
TeeFlush(oa, ob) ==
    IF oa.kind # "ok"
    THEN [fa |-> 1, fb |-> 0, res |-> oa.kind, err |-> oa.err, side |-> "a"]
    ELSE [fa |-> 1, fb |-> 1, res |-> ob.kind, err |-> ob.err, side |-> "b"]

\* what a writer can do with a chunk
OkOutcome == [kind |-> "ok", n |-> 0, err |-> EIO]
Outcomes(chunk, errors) ==
    {OkOutcome}
    \cup {[kind |-> "err", n |-> n, err |-> e] : n \in 0..(Len(chunk) - 1), e \in errors}
    \cup {[kind |-> "panic", n |-> n, err |-> EIO] : n \in 0..(Len(chunk) - 1)}
\* a Vec<u8> takes every chunk
VecOutcomes(chunk) == {OkOutcome}
\* a caller supplied writer may fail or panic
SinkOutcomes(chunk) == Outcomes(chunk, SinkErrors)
\* the writer given for stream t: one that rejects writes never takes a whole chunk
SinkOutcomesOf(t, chunk) ==
    IF t \in rejects THEN {o \in SinkOutcomes(chunk) : o.kind = "err"}
    ELSE SinkOutcomes(chunk)

\* ------------------------------------------------------------------ pipes
\* the parent's read end of pipe s is open while child.<s> holds it or a
\* running drain thread owns it
ReadOpen(s) ==
    \/ field[s] = "some"
    \/ \E t \in Streams : thread[t].st = "running" /\ thread[t].src = s
\* (variant: the write end stays open until the child has been waited for)
WriteOpenUntilReaped == child.st = "running" \/ child.st = "exited"

\* the write end is open while the child runs
WriteOpen == child.st = "running"

\* ------------------------------------------------------------------- Init
Init ==
    /\ pc = "idle"
    /\ prog \in Programs
    /\ child = [st |-> "unspawned", pos |-> 0, status |-> 0]
    /\ field = [s \in Streams |-> "none"]
    /\ pipe = [s \in Streams |-> <<>>]
    /\ thread = [t \in Streams |-> NoThread]
    /\ buffer = [t \in Streams |-> <<>>]
    /\ sink = [t \in Streams |-> <<>>]
    /\ joined = [t \in Streams |-> NoResult]
    /\ waitRes = NoResult
    /\ result = NoResult
    /\ fault = NoFault
    /\ prev = NoPrev
    /\ rejects \in SUBSET Streams
    /\ tee = NoTee
    /\ named = NoNamed

\* ------------------------------------------------- the calling thread
\* (variant: the buffers are kept from one call to the next)
CallKeepsBuffers ==
    /\ pc = "idle"
    /\ pc' = "spawn"
    /\ UNCHANGED <<named, tee, rejects, prev, prog, child, field, pipe, thread, buffer, sink, joined, waitRes, result, fault>>

\* lines 11-15: two empty buffers, each teed with its external sink
Call ==
    /\ pc = "idle"
    /\ pc' = "spawn"
    /\ buffer' = [t \in Streams |-> <<>>]
    /\ UNCHANGED <<named, tee, rejects, prev, prog, child, field, pipe, thread, sink, joined, waitRes, result, fault>>

\* lines 17-20: spawn()? with both streams piped
\* (variant: the launch error is noted but the call goes on to the scope)
SpawnFailedFallsThrough(e) ==
    /\ child' = [child EXCEPT !.st = "spawn_failed"]
    /\ fault' = Fault("spawn", "none", "none", "err", e)
    /\ pc' = "spawn_stdout_thread"
    /\ UNCHANGED <<field, result>>

SpawnFailed(e) ==
    /\ child' = [child EXCEPT !.st = "spawn_failed"]
    /\ result' = Err(e)
    /\ fault' = Fault("spawn", "none", "none", "err", e)
    /\ pc' = "returned"
    /\ UNCHANGED field

SpawnSucceeded ==
    /\ child' = [child EXCEPT !.st = "running"]
    /\ field' = [s \in Streams |-> "some"]
    /\ pc' = "spawn_stdout_thread"
    /\ UNCHANGED <<result, fault>>

Spawn ==
    /\ pc = "spawn"
    /\ \/ SpawnSucceeded
       \/ \E e \in SpawnErrors : SpawnFailed(e)
    /\ UNCHANGED <<named, tee, rejects, prev, prog, pipe, thread, buffer, sink, joined, waitRes>>

\* (variant: the stdout thread is made from child.stderr)
StdoutThreadTakesStderr == "stderr"

\* the field of child each thread is made from (lines 23 and 26)
StdoutThreadTakes == "stdout"
StderrThreadTakes == "stdout"

\* mem::take(&mut child.<f>).map(|h| scope.spawn(copy(h, tee))): a thread
\* is started only when the field still holds a handle
StartThread(t, f) ==
    /\ thread' = [thread EXCEPT ![t] =
                    IF field[f] = "some"
                    THEN [st |-> "running", src |-> f, res |-> NoResult]
                    ELSE NoThread]
    /\ field' = [field EXCEPT ![f] = "none"]

\* lines 23-25
SpawnStdoutThread ==
    /\ pc = "spawn_stdout_thread"
    /\ StartThread("stdout", StdoutThreadTakes)
    /\ pc' = "spawn_stderr_thread"
    /\ UNCHANGED <<named, tee, rejects, prev, prog, child, pipe, buffer, sink, joined, waitRes, result, fault>>

\* lines 26-28
SpawnStderrThread ==
    /\ pc = "spawn_stderr_thread"
    /\ StartThread("stderr", StderrThreadTakes)
    /\ pc' = "join_stdout"
    /\ UNCHANGED <<named, tee, rejects, prev, prog, child, pipe, buffer, sink, joined, waitRes, result, fault>>

\* (variant: a panicked thread counts as a thread that copied nothing)
JoinValueSwallowsPanic(th) ==
    IF th.st = "none" \/ th.st = "panicked" THEN Ok(0) ELSE th.res

\* (variant: a panicked thread is turned into an io::Error)
JoinValuePanicAsErr(th) ==
    IF th.st = "none" THEN Ok(0)
    ELSE IF th.st = "panicked" THEN Err(EIO)
    ELSE th.res

\* (variant: the thread's io::Error is replaced by one made at the join)
JoinValueOwnError(th) ==
    IF th.st = "none" THEN Ok(0)
    ELSE IF th.st = "panicked" THEN [tag |-> "resume_unwind"]
    ELSE IF th.res.tag = "Err" THEN Err(EIO)
    ELSE th.res

\* map_or_else(|| Ok(0), |handle| match handle.join() {..}): what the
\* calling thread gets from a thread that is not running
JoinValue(th) ==
    IF th.st = "none" THEN Ok(0)
    ELSE IF th.st = "panicked" THEN [tag |-> "resume_unwind"]
    ELSE th.res

\* (variant: the join does not wait: a thread that still runs is left behind
\* and the call returns)
JoinAbandons(t, next) ==
    /\ IF thread[t].st = "running"
       THEN /\ pc' = "returned"
            /\ result' = Err(EIO)
            /\ UNCHANGED joined
       ELSE /\ LET v == JoinValue(thread[t])
               IN  IF v.tag = "resume_unwind"
                   THEN /\ pc' = "unwinding"
                        /\ UNCHANGED joined
                   ELSE /\ pc' = next
                        /\ joined' = [joined EXCEPT ![t] = v]
            /\ UNCHANGED result
    /\ UNCHANGED <<named, tee, rejects, prev, prog, child, field, pipe, thread, buffer, sink, waitRes, fault>>

Join(t, next) ==
    /\ thread[t].st # "running"
    /\ LET v == JoinValue(thread[t])
       IN  IF v.tag = "resume_unwind"
           THEN /\ pc' = "unwinding"
                /\ UNCHANGED joined
           ELSE /\ pc' = next
                /\ joined' = [joined EXCEPT ![t] = v]
    /\ UNCHANGED <<named, tee, rejects, prev, prog, child, field, pipe, thread, buffer, sink, waitRes, result, fault>>

\* lines 30-37
JoinStdout == pc = "join_stdout" /\ Join("stdout", "join_stderr")
\* lines 38-46: the argument of .and(..) is evaluated whatever the first join gave
JoinStderr == pc = "join_stderr" /\ Join("stderr", "and_then")

\* Result::and
And(r1, r2) == IF r1.tag = "Ok" THEN r2 ELSE r1

\* line 47: .and_then(|_| child.wait()) calls wait only on Ok
AndThenWait ==
    /\ pc = "and_then"
    /\ pc' = IF And(joined["stdout"], joined["stderr"]).tag = "Ok" THEN "wait" ELSE "scope_end"
    /\ UNCHANGED <<named, tee, rejects, prev, prog, child, field, pipe, thread, buffer, sink, joined, waitRes, result, fault>>

\* Child::wait: blocks until the child has exited
WaitChild ==
    /\ pc = "wait"
    /\ child.st = "exited"
    /\ waitRes' = Ok(child.status)
    /\ child' = [child EXCEPT !.st = "reaped"]
    /\ pc' = "scope_end"
    /\ UNCHANGED <<named, tee, rejects, prev, prog, field, pipe, thread, buffer, sink, joined, result, fault>>

WaitChildFails ==
    /\ pc = "wait"
    /\ \E e \in WaitErrors :
         /\ waitRes' = Err(e)
         /\ fault' = Fault("wait", "none", "none", "err", e)
    /\ pc' = "scope_end"
    /\ UNCHANGED <<named, tee, rejects, prev, prog, child, field, pipe, thread, buffer, sink, joined, result>>

\* the value of the closure given to thread::scope
ScopeValue ==
    LET r == And(joined["stdout"], joined["stderr"])
    IN  IF r.tag = "Ok" THEN waitRes ELSE r

\* (variant: the two buffers are put in each other's field)
MapOutputSwapped(r) ==
    IF r.tag = "Ok"
    THEN Ok([status |-> r.val, stdout |-> buffer["stderr"], stderr |-> buffer["stdout"]])
    ELSE r

\* lines 49-53: .map(|status| process::Output {..})
MapOutput(r) ==
    IF r.tag = "Ok"
    THEN Ok([status |-> r.val, stdout |-> buffer["stdout"], stderr |-> buffer["stderr"]])
    ELSE r

\* (variant: the call closes the two sinks before it returns; a closed sink
\* fails every later write)
ScopeEndClosesSinks ==
    /\ pc = "scope_end"
    /\ \A t \in Streams : thread[t].st # "running"
    /\ result' = MapOutput(ScopeValue)
    /\ pc' = "returned"
    /\ rejects' = Streams
    /\ UNCHANGED <<named, tee, prev, prog, child, field, pipe, thread, buffer, sink, joined, waitRes, fault>>

\* line 48: thread::scope returns once every scoped thread has finished
ScopeEnd ==
    /\ pc = "scope_end"
    /\ \A t \in Streams : thread[t].st # "running"
    /\ result' = MapOutput(ScopeValue)
    /\ pc' = "returned"
    /\ UNCHANGED <<named, tee, rejects, prev, prog, child, field, pipe, thread, buffer, sink, joined, waitRes, fault>>

\* panic::resume_unwind leaves the scope closure; thread::scope waits for
\* the scoped threads and the panic goes on into the caller
Unwind ==
    /\ pc = "unwinding"
    /\ \A t \in Streams : thread[t].st # "running"
    /\ pc' = "panicked"
    /\ UNCHANGED <<named, tee, rejects, prev, prog, child, field, pipe, thread, buffer, sink, joined, waitRes, result, fault>>

\* ------------------------------------------------------ the drain threads
\* (variant: the two threads append to one buffer that both streams share)
DrainCopyShared(t) ==
    /\ thread[t].st = "running"
    /\ LET s == thread[t].src
       IN  /\ pipe[s] # <<>>
           /\ \E k \in 1..Len(pipe[s]) :
                LET chunk == SubSeq(pipe[s], 1, k)
                IN  \E oa \in VecOutcomes(chunk), ob \in SinkOutcomesOf(t, chunk) :
                      LET w == TeeWrite(buffer[t], sink[t], chunk, oa, ob)
                      IN  /\ pipe' = [pipe EXCEPT ![s] = SubSeq(pipe[s], k + 1, Len(pipe[s]))]
                          /\ buffer' = [u \in Streams |-> w.a]
                          /\ sink' = [sink EXCEPT ![t] = w.b]
                          /\ thread' = [thread EXCEPT ![t] =
                                IF w.res = "ok" THEN @
                                ELSE IF w.res = "err"
                                THEN [@ EXCEPT !.st = "finished", !.res = Err(w.err)]
                                ELSE [@ EXCEPT !.st = "panicked"]]
                          /\ fault' = IF w.res = "ok" \/ fault.site # "none" THEN fault
                                      ELSE Fault("write", t, w.side, w.res, w.err)
    /\ UNCHANGED <<named, tee, rejects, prev, pc, prog, child, field, joined, waitRes, result>>

\* std::io::copy(&mut pipe, &mut tee): one read of k bytes and the write of
\* that chunk through the tee of the thread's own buffer and sink
DrainCopy(t) ==
    /\ thread[t].st = "running"
    /\ LET s == thread[t].src
       IN  /\ pipe[s] # <<>>
           /\ \E k \in 1..Len(pipe[s]) :
                LET chunk == SubSeq(pipe[s], 1, k)
                IN  \E oa \in VecOutcomes(chunk), ob \in SinkOutcomesOf(t, chunk) :
                      LET w == TeeWrite(buffer[t], sink[t], chunk, oa, ob)
                      IN  /\ pipe' = [pipe EXCEPT ![s] = SubSeq(pipe[s], k + 1, Len(pipe[s]))]
                          /\ buffer' = [buffer EXCEPT ![t] = w.a]
                          /\ sink' = [sink EXCEPT ![t] = w.b]
                          /\ thread' = [thread EXCEPT ![t] =
                                IF w.res = "ok" THEN @
                                ELSE IF w.res = "err"
                                THEN [@ EXCEPT !.st = "finished", !.res = Err(w.err)]
                                ELSE [@ EXCEPT !.st = "panicked"]]
                          /\ fault' = IF w.res = "ok" \/ fault.site # "none" THEN fault
                                      ELSE Fault("write", t, w.side, w.res, w.err)
    /\ UNCHANGED <<named, tee, rejects, prev, pc, prog, child, field, joined, waitRes, result>>

\* a read of 0 bytes: the pipe is empty and its write end is closed
DrainEof(t) ==
    /\ thread[t].st = "running"
    /\ pipe[thread[t].src] = <<>>
    /\ ~WriteOpen
    /\ thread' = [thread EXCEPT ![t] = [@ EXCEPT !.st = "finished", !.res = Ok(Len(buffer[t]))]]
    /\ UNCHANGED <<named, tee, rejects, prev, pc, prog, child, field, pipe, buffer, sink, joined, waitRes, result, fault>>

\* a read that fails
DrainReadFails(t) ==
    /\ thread[t].st = "running"
    /\ \E e \in ReadErrors :
         /\ thread' = [thread EXCEPT ![t] = [@ EXCEPT !.st = "finished", !.res = Err(e)]]
         /\ fault' = IF fault.site # "none" THEN fault
                     ELSE Fault("read", t, "pipe", "err", e)
    /\ UNCHANGED <<named, tee, rejects, prev, pc, prog, child, field, pipe, buffer, sink, joined, waitRes, result>>

Drain == \E t \in Streams : DrainCopy(t) \/ DrainEof(t) \/ DrainReadFails(t)

\* -------------------------------------------------------------- the child
\* the child writes its next byte; the write blocks while the pipe is full
ChildWrite ==
    /\ child.st = "running"
    /\ child.pos < Len(prog)
    /\ LET s == prog[child.pos + 1]
       IN  /\ ReadOpen(s)
           /\ Len(pipe[s]) < PipeCap
           /\ pipe' = [pipe EXCEPT ![s] = Append(@, child.pos + 1)]
    /\ child' = [child EXCEPT !.pos = @ + 1]
    /\ UNCHANGED <<named, tee, rejects, prev, pc, prog, field, thread, buffer, sink, joined, waitRes, result, fault>>

\* a write to a pipe nobody reads any more: SIGPIPE ends the child
ChildSigPipe ==
    /\ child.st = "running"
    /\ child.pos < Len(prog)
    /\ ~ReadOpen(prog[child.pos + 1])
    /\ child' = [child EXCEPT !.st = "exited", !.status = SigPipeRaw]
    /\ UNCHANGED <<named, tee, rejects, prev, pc, prog, field, pipe, thread, buffer, sink, joined, waitRes, result, fault>>

\* the caller's environment ends the child from outside (SIGKILL); its ends
\* of the pipes close
ChildKilled ==
    /\ child.st = "running"
    /\ child' = [child EXCEPT !.st = "exited", !.status = SigKillRaw]
    /\ UNCHANGED <<named, tee, rejects, prev, pc, prog, field, pipe, thread, buffer, sink, joined, waitRes, result, fault>>

\* the program is over: the child exits and its ends of the pipes close
ChildExit ==
    /\ child.st = "running"
    /\ child.pos = Len(prog)
    /\ \E c \in ExitCodes : child' = [child EXCEPT !.st = "exited", !.status = ExitRaw(c)]
    /\ UNCHANGED <<named, tee, rejects, prev, pc, prog, field, pipe, thread, buffer, sink, joined, waitRes, result, fault>>


\* the caller runs a second command with the same two sinks
NextCall ==
    /\ pc = "returned"
    /\ prev = NoPrev
    /\ prev' = [fault |-> fault, result |-> result]
    /\ pc' = "idle"
    /\ prog' \in Programs
    /\ child' = [st |-> "unspawned", pos |-> 0, status |-> 0]
    /\ field' = [s \in Streams |-> "none"]
    /\ pipe' = [s \in Streams |-> <<>>]
    /\ thread' = [t \in Streams |-> NoThread]
    /\ joined' = [t \in Streams |-> NoResult]
    /\ waitRes' = NoResult
    /\ result' = NoResult
    /\ fault' = NoFault
    /\ UNCHANGED <<named, tee, rejects, buffer, sink>>

\* ------------------------------------------------- a TeeWrite on its own
\* the bytes and the chunks given to the tee
TeeBytes == {1, 2}
TeeChunks == SeqsUpTo(TeeBytes, PipeCap)

\* tee(a, b) of two empty writers; the runner is not called
TeeInit ==
    /\ Init
    /\ prog = <<>>
    /\ rejects = {}

\* one call of TeeWrite::write; either writer may take the chunk, fail or panic
TeeWriteCall ==
    /\ tee.calls < MaxTeeCalls
    /\ \E chunk \in TeeChunks :
         \E oa \in SinkOutcomes(chunk), ob \in SinkOutcomes(chunk) :
           LET w == TeeWrite(tee.a, tee.b, chunk, oa, ob)
           IN  tee' = [tee EXCEPT
                 !.a = w.a, !.b = w.b,
                 !.written = @ \o chunk,
                 !.allOk = @ /\ w.res = "ok",
                 !.calls = @ + 1,
                 !.last = [op |-> "write", chunk |-> chunk, a0 |-> tee.a, b0 |-> tee.b,
                           fa0 |-> tee.flushedA, fb0 |-> tee.flushedB,
                           oa |-> oa.kind, ob |-> ob.kind,
                           res |-> w.res, side |-> w.side, n |-> w.n, err |-> w.err]]
    /\ UNCHANGED <<named, rejects, prev, pc, prog, child, field, pipe, thread, buffer, sink, joined,
                   waitRes, result, fault>>

\* one call of TeeWrite::flush
TeeFlushCall ==
    /\ tee.calls < MaxTeeCalls
    /\ \E oa \in FlushOutcomes, ob \in FlushOutcomes :
         LET f == TeeFlush(oa, ob)
         IN  tee' = [tee EXCEPT
               !.flushedA = @ + f.fa, !.flushedB = @ + f.fb,
               !.calls = @ + 1,
               !.last = [op |-> "flush", chunk |-> <<>>, a0 |-> tee.a, b0 |-> tee.b,
                         fa0 |-> tee.flushedA, fb0 |-> tee.flushedB,
                         oa |-> oa.kind, ob |-> ob.kind,
                         res |-> f.res, side |-> f.side, n |-> 0, err |-> f.err]]
    /\ UNCHANGED <<named, rejects, prev, pc, prog, child, field, pipe, thread, buffer, sink, joined,
                   waitRes, result, fault>>

TeeNext == TeeWriteCall \/ TeeFlushCall
SpecTee == TeeInit /\ [][TeeNext]_vars

\* -------------------------------------------------------- NamedCommand
\* the arguments given to a Command; the second holds a character outside
\* QUOTE_ARG_RE's class
CmdArgs == {"install", "a b"}
\* the names given to named()
GivenNames == {<<"short">>}

\* lib.rs 711-717: an argument matching QUOTE_ARG_RE is shown in its Debug form
DisplayArg(a) == IF a = "a b" THEN "\"a b\"" ELSE a
\* display, lib.rs 704-721: the program and the shown arguments, in order
\* (the words of the string joined by " ")
Display(cmd) == <<cmd.program>> \o [i \in 1..Len(cmd.args) |-> DisplayArg(cmd.args[i])]

\* the closure of the named_fn doctest, lib.rs 431:
\* cmd.name().replace("bundle", "bin/bundle")
NameFn(cmd) ==
    [i \in 1..Len(Display(cmd)) |->
        IF Display(cmd)[i] = "bundle" THEN "bin/bundle" ELSE Display(cmd)[i]]

\* NamedCommand::mut_cmd, lib.rs 570-572: the Command the NamedCommand refers to
MutCmd(n) == [program |-> n.program, args |-> n.args]

\* (variant: the name is made from the Command each time it is asked for)
NamedCommandNameDisplays(n) == Display(MutCmd(n))

\* NamedCommand::name, lib.rs 566-568
NamedCommandName(n) == n.name

NamedInit ==
    /\ Init
    /\ prog = <<>>
    /\ rejects = {}

\* NamedCommand { name, command }
MakeNamedCommand(name) ==
    /\ ~named.made
    /\ named' = [named EXCEPT !.made = TRUE, !.name = name, !.name0 = name, !.args0 = named.args]
    /\ UNCHANGED <<tee, rejects, prev, pc, prog, child, field, pipe, thread, buffer, sink, joined,
                   waitRes, result, fault>>

\* Command::arg before the NamedCommand is made
CommandArg ==
    /\ ~named.made
    /\ Len(named.args) < MaxArgs
    /\ \E a \in CmdArgs : named' = [named EXCEPT !.args = Append(@, a)]
    /\ UNCHANGED <<tee, rejects, prev, pc, prog, child, field, pipe, thread, buffer, sink, joined,
                   waitRes, result, fault>>

\* CommandWithName::named, lib.rs 410-414
Named == \E s \in GivenNames : MakeNamedCommand(s)
\* CommandWithName::named_fn, lib.rs 435-439
NamedFn == MakeNamedCommand(NameFn(MutCmd(named)))
\* From<&mut Command> for NamedCommand, lib.rs 554-562
NamedFrom == MakeNamedCommand(Display(MutCmd(named)))

\* mut_cmd().arg(a) on the NamedCommand
MutCmdArg ==
    /\ named.made
    /\ Len(named.args) < MaxArgs
    /\ \E a \in CmdArgs :
         named' = [named EXCEPT !.args = Append(@, a), !.added = Append(@, a)]
    /\ UNCHANGED <<tee, rejects, prev, pc, prog, child, field, pipe, thread, buffer, sink, joined,
                   waitRes, result, fault>>

NamedNext == CommandArg \/ Named \/ NamedFn \/ NamedFrom \/ MutCmdArg
SpecNamed == NamedInit /\ [][NamedNext]_vars

\* --------------------------------------------------------- stream_output
\* ExitStatus::success
Success(status) == status = 0

\* (variant: the io::Error is not kept in the CmdError)
OnSystemErrorDropsCause(name, e) == [variant |-> "SystemError", name |-> name, err |-> EIO]

\* CmdError::SystemError(name, io_error), lib.rs 478 and 903-905
OnSystemError(name, e) == [variant |-> "SystemError", name |-> name, err |-> e]

\* (variant: only the exit code byte of the status is looked at)
NonzeroStreamedByExitCode(name, output) ==
    IF (output.status \div 256) = 0
    THEN Ok([name |-> name, output |-> output])
    ELSE Err([variant |-> "NonZeroExitAlreadyStreamed",
              named |-> [name |-> name, output |-> output]])

\* nonzero_streamed, lib.rs 921-931
NonzeroStreamed(name, output) ==
    IF Success(output.status)
    THEN Ok([name |-> name, output |-> output])
    ELSE Err([variant |-> "NonZeroExitAlreadyStreamed",
              named |-> [name |-> name, output |-> output]])

\* CommandWithName::stream_output applied to what output_and_write_streams
\* returned, lib.rs 477-483
StreamOutput(name, r) ==
    IF r.tag = "Err" THEN Err(OnSystemError(name, r.err))
    ELSE NonzeroStreamed(name, r.val)

\* the name the command reports, lib.rs 474
CmdName == "cmd"
\* the names a command can report: its display, or one given by named()
Names == {CmdName, "renamed"}

\* NamedOutput::name, lib.rs 659-661
NamedOutputName(no) == no.name

\* (variant: a SystemError has lost the name)
CmdErrorNameOfOutputOnly(ce) ==
    IF ce.variant = "SystemError" THEN "" ELSE ce.named.name

\* CmdError::name, lib.rs 852-859
CmdErrorName(ce) ==
    IF ce.variant = "SystemError" THEN ce.name ELSE ce.named.name

\* the name carried by a Result<NamedOutput, CmdError>
ResultName(r) == IF r.tag = "Ok" THEN NamedOutputName(r.val) ELSE CmdErrorName(r.err)

\* nonzero_captured, lib.rs 943-953
NonzeroCaptured(name, output) ==
    IF Success(output.status)
    THEN Ok([name |-> name, output |-> output])
    ELSE Err([variant |-> "NonZeroExitNotStreamed",
              named |-> [name |-> name, output |-> output]])

\* CommandWithName::named_output applied to what Command::output returned,
\* lib.rs 447-457
NamedOutputOf(name, r) ==
    IF r.tag = "Err" THEN Err(OnSystemError(name, r.err))
    ELSE NonzeroCaptured(name, r.val)

\* Command::output of the program the child has run: its status and all it
\* wrote to each stream, lib.rs 449-450
CommandOutput ==
    Ok([status |-> child.status,
        stdout |-> Written(prog, child.pos, "stdout"),
        stderr |-> Written(prog, child.pos, "stderr")])

\* ExitStatus::from_raw(error.raw_os_error().unwrap_or(-1)), lib.rs 881
StatusOfError(e) == IF e.raw = <<>> THEN -1 ELSE e.raw[1]
\* error.to_string().into_bytes(), lib.rs 883: a text made of the error's
\* code, none of its bytes a byte of the child
ErrorText(e) == <<-1, StatusOfError(e)>>

\* (variant: the error's NamedOutput is rebuilt and its stdout left empty)
IntoNamedOutputDropsStdout(ce) ==
    IF ce.variant = "SystemError"
    THEN [name |-> ce.name,
          output |-> [status |-> StatusOfError(ce.err), stdout |-> <<>>, stderr |-> ErrorText(ce.err)]]
    ELSE [name |-> ce.named.name,
          output |-> [ce.named.output EXCEPT !.stdout = <<>>]]

\* impl From<CmdError> for NamedOutput, lib.rs 875-890
IntoNamedOutput(ce) ==
    IF ce.variant = "SystemError"
    THEN [name |-> ce.name,
          output |-> [status |-> StatusOfError(ce.err), stdout |-> <<>>, stderr |-> ErrorText(ce.err)]]
    ELSE ce.named

\* CmdError::status, lib.rs 864-872
CmdErrorStatus(ce) ==
    IF ce.variant = "SystemError" THEN StatusOfError(ce.err) ELSE ce.named.output.status

\* ------------------------------------------------------------------- Next
Next ==
    \/ Call
    \/ Spawn
    \/ SpawnStdoutThread
    \/ SpawnStderrThread
    \/ JoinStdout
    \/ JoinStderr
    \/ AndThenWait
    \/ WaitChild
    \/ WaitChildFails
    \/ ScopeEnd
    \/ Unwind
    \/ Drain
    \/ ChildWrite
    \/ ChildSigPipe
    \/ ChildKilled
    \/ ChildExit

Spec == Init /\ [][Next]_vars

\* the steps that the scheduler, not a failing read, write or wait, decides
Progress ==
    \/ Call \/ Spawn \/ SpawnStdoutThread \/ SpawnStderrThread
    \/ JoinStdout \/ JoinStderr \/ AndThenWait \/ WaitChild \/ ScopeEnd \/ Unwind
    \/ \E t \in Streams : DrainCopy(t) \/ DrainEof(t)
    \/ ChildWrite \/ ChildSigPipe \/ ChildExit

\* every thread and the child are scheduled as long as they can take a step;
\* no read, write or wait is bound to fail
FairSpec == Spec /\ WF_vars(Progress)

\* two calls in a row
NextSeq == Next \/ NextCall
SpecSeq == Init /\ [][NextSeq]_vars


\* ================================================================ claims
Terminal == {"returned", "panicked"}
PastThreadSpawn == {"join_stdout", "join_stderr", "and_then", "wait", "scope_end",
                    "unwinding", "panicked", "returned"}
DrainSites == {"read", "write"}
SomeThreadPanicked == \E t \in Streams : thread[t].st = "panicked"

\* C1: a child that writes any number of bytes to stdout and to stderr and
\* then exits never blocks the call for ever: under fair scheduling the
\* call eventually returns.
C1_EventuallyReturns == <>(pc \in Terminal)

\* C2: whenever the call returns Ok, the returned stdout is exactly what the
\* child wrote to its stdout and the returned stderr exactly what it wrote
\* to its stderr.
C2_CapturesBothStreams ==
    (pc = "returned" /\ result.tag = "Ok") =>
        /\ result.val.stdout = Written(prog, child.pos, "stdout")
        /\ result.val.stderr = Written(prog, child.pos, "stderr")

\* C3: once the spawn has succeeded and the threads have been started, there
\* are exactly two drain tasks, one reading the child's stdout pipe and one
\* reading the child's stderr pipe.
C3_TwoDrainTasks ==
    (pc \in PastThreadSpawn /\ child.st # "spawn_failed") =>
        \A t \in Streams : thread[t].st # "none" /\ thread[t].src = t

\* C4: if the spawn fails, the call has returned the launch error at once:
\* no drain thread was started, neither sink received a byte and no Output
\* was produced.
C4_SpawnFailureReturnsAtOnce ==
    (child.st = "spawn_failed") =>
        /\ pc = "returned"
        /\ result.tag = "Err"
        /\ result.err \in SpawnErrors
        /\ result.err = fault.err
        /\ \A t \in Streams : thread[t].st = "none" /\ sink[t] = <<>> /\ buffer[t] = <<>>
        /\ waitRes = NoResult
C4_Witness == child.st = "spawn_failed" /\ pc = "returned" /\ result = Err(ENOENT)

\* C5: when a drain task ended with an I/O error, child.wait has been
\* called by the time the call returns the error.
C5_AwaitedOnDrainFault ==
    (pc = "returned" /\ fault.site \in DrainSites) => waitRes # NoResult

\* C6: an Ok(Output) is produced only after the stdout drain task has
\* finished, the stderr drain task has finished and the child's exit
\* status has been obtained.
C6_OkAfterAllThree ==
    (result.tag = "Ok") =>
        /\ thread["stdout"].st = "finished"
        /\ thread["stderr"].st = "finished"
        /\ waitRes.tag = "Ok"

\* the error of a call as stream_output reports it
CmdErrorOf(r) == StreamOutput(CmdName, r).err

C9_PanicNeverOk ==
    SomeThreadPanicked => result.tag # "Ok" /\ pc # "returned"
C9_Witness == SomeThreadPanicked /\ pc = "panicked" /\ child.st = "exited"

\* C10 (as stated): a drain thread that panicked ends the call with an Err
\* value, not with a panic of the calling thread.
C10_PanicBecomesErr ==
    (SomeThreadPanicked /\ pc \in Terminal) => pc = "returned" /\ result.tag = "Err"

\* C10 (amended): a drain thread that panicked ends the call with the same
\* panic resumed in the calling thread; the call returns neither Ok nor Err.
C10_PanicResumed ==
    (SomeThreadPanicked /\ pc \in Terminal) => pc = "panicked" /\ result = NoResult
C10_Witness == thread["stdout"].st = "panicked" /\ pc = "panicked" /\ buffer["stdout"] # <<>>

IsPrefix(x, y) == Len(x) <= Len(y) /\ SubSeq(y, 1, Len(x)) = x

\* C12: TeeWrite::write gives the whole chunk to writer A first and to
\* writer B only when A took it; on success it returns the chunk's length;
\* when A fails, B receives nothing of the chunk.
C12_TeeWriteFirstThenSecond ==
    (tee.last.op = "write") =>
        /\ (tee.last.res = "ok") =>
              /\ tee.a = tee.last.a0 \o tee.last.chunk
              /\ tee.b = tee.last.b0 \o tee.last.chunk
              /\ tee.last.n = Len(tee.last.chunk)
        /\ (tee.last.oa # "ok") => tee.b = tee.last.b0 /\ tee.last.res # "ok"
        /\ (tee.b # tee.last.b0) => tee.a = tee.last.a0 \o tee.last.chunk
C12_Witness ==
    /\ tee.last.op = "write" /\ tee.last.oa = "err" /\ tee.last.ob = "ok"
    /\ tee.last.chunk # <<>> /\ tee.last.b0 # <<>> /\ tee.b = tee.last.b0

\* C13: after any sequence of chunks written through a TeeWrite with every
\* write succeeding, writer A and writer B hold the same bytes in the same
\* order: the concatenation of the chunks.
C13_TeeRoundTrip ==
    (tee.allOk) => tee.a = tee.written /\ tee.b = tee.written
C13_Witness ==
    /\ tee.allOk /\ tee.last.op = "write"
    /\ tee.last.a0 # <<>> /\ Len(tee.last.chunk) = PipeCap /\ tee.b = tee.written

\* C15: TeeWrite::flush flushes writer A and then, only if that succeeded,
\* writer B; when flushing A fails, its error is returned and B is not
\* flushed.
C15_TeeFlushFirstThenSecond ==
    (tee.last.op = "flush") =>
        /\ tee.flushedA = tee.last.fa0 + 1
        /\ (tee.last.oa = "ok") => tee.flushedB = tee.last.fb0 + 1 /\ tee.last.res = tee.last.ob
        /\ (tee.last.oa # "ok") => tee.flushedB = tee.last.fb0 /\ tee.last.res = "err"
                                   /\ tee.last.side = "a"
C15_Witness ==
    /\ tee.last.op = "flush" /\ tee.last.oa = "err" /\ tee.last.ob = "ok"
    /\ tee.flushedB = tee.last.fb0 /\ tee.last.fb0 > 0

\* C11: if a drain task ended with an I/O error the call returns an error,
\* never Ok; so for the stdout stream and for the stderr stream: a sink that
\* rejects the writes of a stream the child wrote to makes the call fail.
C11_DrainErrorNeverOk ==
    (pc = "returned") =>
        /\ (\E t \in Streams : thread[t].res.tag = "Err") => result.tag = "Err"
        /\ (\E t \in rejects : Written(prog, child.pos, t) # <<>>) => result.tag = "Err"

\* C14 (as stated): after a write through tee(buffer, sink) on which the
\* external sink failed, the buffer holds no byte of the failing chunk that
\* the sink did not accept.
C14_BufferNotAheadOfSink ==
    (fault.site = "write" /\ fault.side = "b") =>
        buffer[fault.stream] = sink[fault.stream]

\* C14 (amended): after a write through tee(buffer, sink) on which the
\* external sink failed, the buffer holds the whole failing chunk: what the
\* sink has is a proper prefix of the buffer, shorter by at most one chunk.
C14_BufferHoldsFailedChunk ==
    (fault.site = "write" /\ fault.side = "b") =>
        /\ IsPrefix(sink[fault.stream], buffer[fault.stream])
        /\ Len(sink[fault.stream]) < Len(buffer[fault.stream])
        /\ Len(buffer[fault.stream]) - Len(sink[fault.stream]) <= PipeCap
C14_Witness ==
    /\ fault.site = "write" /\ fault.side = "b" /\ fault.kind = "err"
    /\ sink["stdout"] # <<>> /\ Len(buffer["stdout"]) = Len(sink["stdout"]) + 1

\* C16: in every state, for each stream, the captured buffer and the bytes
\* the external sink has received are each a prefix of what the child has
\* written to that stream, in the child's order.
C16_PerStreamOrder ==
    \A t \in Streams :
        /\ IsPrefix(buffer[t], Written(prog, child.pos, t))
        /\ IsPrefix(sink[t], Written(prog, child.pos, t))
C16_Witness ==
    /\ Len(sink["stdout"]) >= 2 /\ Len(buffer["stdout"]) >= 2
    /\ Written(prog, child.pos, "stderr") # <<>>
    /\ prog[1] = "stderr"

\* C17: whenever the call returns Ok, each sink has received exactly the
\* bytes of the corresponding buffer of the Output, and a child that wrote
\* to stdout only leaves the stderr sink and output.stderr empty.
C17_SinksEqualOutput ==
    (pc = "returned" /\ result.tag = "Ok") =>
        /\ sink["stdout"] = result.val.stdout
        /\ sink["stderr"] = result.val.stderr
        /\ (Written(prog, Len(prog), "stderr") = <<>>) =>
              sink["stderr"] = <<>> /\ result.val.stderr = <<>>
C17_Witness ==
    /\ pc = "returned" /\ result.tag = "Ok"
    /\ prog = <<"stdout", "stdout">>
    /\ sink["stdout"] = <<1, 2>> /\ result.val.stdout = <<1, 2>>

\* C18: when the child exits with a non-zero code and no read, write or wait
\* fails, the call returns Ok with exactly that status and with all the
\* child wrote to each stream.
C18_NonZeroExitIsOk ==
    (pc = "returned" /\ fault.site = "none" /\ child.status = ExitRaw(1)) =>
        result = Ok([status |-> ExitRaw(1),
                     stdout |-> Written(prog, child.pos, "stdout"),
                     stderr |-> Written(prog, child.pos, "stderr")])

\* C19: when the child exits non-zero, stream_output returns
\* Err(NonZeroExitAlreadyStreamed) and named_output Err(NonZeroExitNotStreamed),
\* and the NamedOutput made from either error has the status, stdout, stderr
\* and name of the run.
C19_NonZeroKeepsOutput ==
    (pc = "returned" /\ result.tag = "Ok" /\ ~Success(result.val.status)) =>
        LET so == StreamOutput(CmdName, result)
            no == NamedOutputOf(CmdName, CommandOutput)
        IN  /\ so.tag = "Err"
            /\ so.err.variant = "NonZeroExitAlreadyStreamed"
            /\ IntoNamedOutput(so.err) = [name |-> CmdName, output |-> result.val]
            /\ no.tag = "Err"
            /\ no.err.variant = "NonZeroExitNotStreamed"
            /\ IntoNamedOutput(no.err) = [name |-> CmdName, output |-> CommandOutput.val]
C19_Witness ==
    /\ pc = "returned" /\ result.tag = "Ok"
    /\ result.val.status = ExitRaw(1) /\ result.val.stdout # <<>>

\* C20: once the child has terminated, by itself or ended from outside, the
\* drain tasks come to an end and the call returns; it does not stay blocked.
C20_ReturnsAfterChildExit ==
    (child.st = "exited") ~> (pc \in Terminal /\ \A t \in Streams : thread[t].st # "running")
C20_Witness ==
    /\ pc = "returned" /\ child.status = SigKillRaw
    /\ child.pos < Len(prog) /\ Len(pipe["stderr"]) = PipeCap

\* C21: whenever control is with the caller (before the call, after it has
\* returned on any path, or after the panic has gone on into the caller) no
\* drain thread is running: a running drain thread exists only inside the
\* one call that started it.
C21_DrainTasksEndBeforeReturn ==
    (pc \in Terminal \cup {"idle"}) => \A t \in Streams : thread[t].st # "running"
C21_Witness ==
    /\ pc = "returned" /\ result.tag = "Err" /\ fault.site = "wait"
    /\ thread["stdout"].st = "finished" /\ buffer["stdout"] # <<>>

\* C22: a step that changes a buffer is a step of that buffer's own running
\* drain thread and leaves the other buffer as it was, and no Ok result
\* exists yet; the step that makes the Ok result from the buffers is taken
\* when no drain thread runs.
C22_SingleWriter ==
    [][/\ \A t \in Streams :
            (buffer'[t] # buffer[t] /\ pc # "idle") =>
                /\ thread[t].st = "running"
                /\ \A u \in Streams \ {t} : buffer'[u] = buffer[u]
                /\ result.tag # "Ok" /\ result'.tag # "Ok"
       /\ (result'.tag = "Ok" /\ result.tag # "Ok") =>
            /\ \A t \in Streams : thread[t].st # "running"
            /\ buffer' = buffer]_vars
C22_Witness ==
    /\ pc = "returned" /\ result.tag = "Ok"
    /\ Len(result.val.stdout) >= 2 /\ Written(prog, child.pos, "stderr") # <<>>

\* C23: a buffer is empty when the run starts, every step leaves it as it was
\* or appends to it, and no step changes it once its drain thread has
\* returned.
C23_BufferLifecycle ==
    [][/\ (pc = "idle") => \A t \in Streams : buffer'[t] = <<>>
       /\ \A t \in Streams : IsPrefix(buffer[t], buffer'[t])
       /\ \A t \in Streams :
            (thread[t].st \in {"finished", "panicked"}) => buffer'[t] = buffer[t]]_vars
C23_Witness ==
    /\ thread["stdout"].st = "finished" /\ buffer["stdout"] = <<1, 2, 3>>

\* C24: in the second of two calls made with the same sinks, the buffers are
\* empty when the call starts, hold only bytes of the second child, and the
\* Ok result holds only bytes of the second child; the sinks hold what the
\* first call gave them followed by what the second gave them.
C24_NoLeakBetweenCalls ==
    (prev # NoPrev) =>
        /\ (pc = "spawn") => \A t \in Streams : buffer[t] = <<>>
        /\ (pc # "idle") =>
              \A t \in Streams : IsPrefix(buffer[t], Written(prog, child.pos, t))
        /\ (pc = "returned" /\ result.tag = "Ok") =>
              /\ \A t \in Streams : IsPrefix(result.val[t], Written(prog, child.pos, t))
              /\ (prev.result.tag = "Ok") =>
                    \A t \in Streams : sink[t] = prev.result.val[t] \o result.val[t]
C24_Witness ==
    /\ pc = "returned" /\ prev.result.tag = "Ok" /\ result.tag = "Ok"
    /\ prev.result.val.stdout = <<1, 2>> /\ result.val.stdout = <<1>>
    /\ sink["stdout"] = <<1, 2, 1>>

\* C25: no step of a call closes a sink or makes it refuse writes it took
\* before, and no step takes back bytes a sink has received: a sink that
\* accepted writes before a call accepts them after it, on every return path.
C25_SinksStayOpen ==
    [][/\ rejects' = rejects
       /\ \A t \in Streams : IsPrefix(sink[t], sink'[t])]_vars
C25_Witness ==
    /\ pc = "returned" /\ "stdout" \notin rejects
    /\ prev.result.tag = "Err" /\ prev.fault.site = "wait"
    /\ result.tag = "Ok" /\ result.val.stdout # <<>>
    /\ Len(sink["stdout"]) > Len(result.val.stdout)

C28_NonzeroIffNotSuccess ==
    (pc = "returned" /\ result.tag = "Ok") =>
        \A name \in Names :
            LET out == result.val
                given == [name |-> name, output |-> out]
                st == NonzeroStreamed(name, out)
                ca == NonzeroCaptured(name, out)
            IN  /\ (out.status = ExitRaw(0)) => st = Ok(given) /\ ca = Ok(given)
                /\ (out.status # ExitRaw(0)) =>
                      /\ st = Err([variant |-> "NonZeroExitAlreadyStreamed", named |-> given])
                      /\ ca = Err([variant |-> "NonZeroExitNotStreamed", named |-> given])
C28_Witness ==
    /\ pc = "returned" /\ result.tag = "Ok"
    /\ result.val.status = SigKillRaw /\ result.val.stdout # <<>>

\* C27: once a NamedCommand has been made, by named, named_fn or from, its
\* name() is the name it was made with, whatever arguments have been given
\* to the Command through mut_cmd() since; the Command holds the arguments it
\* had then followed by all the later ones.
C27_NameFixedAtCreation ==
    (named.made) =>
        /\ NamedCommandName(named) = named.name0
        /\ MutCmd(named).args = named.args0 \o named.added
        /\ MutCmd(named).program = "bundle"
C27_Witness ==
    /\ named.made /\ named.args0 # <<>> /\ named.added # <<>>
    /\ named.name0 = Display([program |-> "bundle", args |-> named.args0])
    /\ NamedCommandName(named) # Display(MutCmd(named))

\* C29 (as stated): after any sequence of TeeWrite::write calls, failed ones
\* included, what writer B holds is a prefix of what writer A holds, and A
\* is ahead by no more than the most recent chunk.
C29_TeePrefix ==
    (tee.last.op = "write") =>
        /\ IsPrefix(tee.b, tee.a)
        /\ Len(tee.a) - Len(tee.b) <= Len(tee.last.chunk)

\* C29 (amended): after a TeeWrite::write call made when A and B held the
\* same bytes, what B holds is a prefix of what A holds, and A is ahead by no
\* more than that chunk.
C29_TeePrefixFromAgreement ==
    (tee.last.op = "write" /\ tee.last.a0 = tee.last.b0) =>
        /\ IsPrefix(tee.b, tee.a)
        /\ Len(tee.a) - Len(tee.b) <= Len(tee.last.chunk)
C29_Witness ==
    /\ tee.last.op = "write" /\ tee.last.a0 = tee.last.b0 /\ tee.last.a0 # <<>>
    /\ tee.last.oa = "ok" /\ tee.last.ob = "err"
    /\ tee.b # tee.last.b0 /\ Len(tee.a) > Len(tee.b)

\* C30: the status of a CmdError is never a success: whenever stream_output
\* or named_output gives an Err, of any variant, status().success() is false.
C30_ErrorStatusNeverSuccess ==
    (pc = "returned") =>
        LET so == StreamOutput(CmdName, result)
            no == NamedOutputOf(CmdName, IF child.st = "spawn_failed" THEN result
                                         ELSE CommandOutput)
        IN  /\ (so.tag = "Err") => ~Success(CmdErrorStatus(so.err))
            /\ (no.tag = "Err") => ~Success(CmdErrorStatus(no.err))

TypeOK ==
    /\ pc \in {"idle", "spawn", "spawn_stdout_thread", "spawn_stderr_thread", "join_stdout",
               "join_stderr", "and_then", "wait", "scope_end", "unwinding", "panicked", "returned"}
    /\ prog \in Programs
    /\ \A s \in Streams : Len(pipe[s]) <= PipeCap

====
